---- MODULE Spec2Model ----
(***************************************************************************)
(* Regional analytics dashboard: the in-memory dataset store (store.py),   *)
(* the aggregation engine (analytics.py) and the request handlers that     *)
(* call them (routes.py).                                                  *)
(*                                                                         *)
(* A DataFrame is [columns: sequence of column names, rows: sequence of    *)
(* rows], a row being a function from the column names to cells.  A cell   *)
(* is a number n/d (kept in lowest terms), a missing value (NaN / None)    *)
(* or a string.  Coordinates of the sample dataset are the rationals       *)
(* 3709/100, ... that their decimal literals denote.                       *)
(***************************************************************************)
EXTENDS Integers, Sequences, FiniteSets, TLC

\* ------------------------------------------------------------------ bounds
\* Insertions (put_dataframe calls) started in one behaviour.
MaxPuts == 2
\* Rows of a dataset handed to the aggregation engine directly.
MaxRows == 3

\* ------------------------------------------------------------------- cells
RECURSIVE Gcd(_, _)
Gcd(a, b) == IF b = 0 THEN a ELSE Gcd(b, a % b)

Abs(n) == IF n < 0 THEN -n ELSE n

Rat(n, d) ==
    LET g == Gcd(Abs(n), d)
    IN  [t |-> "num", n |-> n \div g, d |-> d \div g, s |-> ""]

Num(n) == [t |-> "num", n |-> n, d |-> 1, s |-> ""]

NaN == [t |-> "nan", n |-> 0, d |-> 1, s |-> ""]

Str(x) == [t |-> "str", n |-> 0, d |-> 1, s |-> x]

IsNull(c) == c.t = "nan"

\* What a reduction that raises TypeError leaves in place of a cell.
TypeErr == [t |-> "err", n |-> 0, d |-> 1, s |-> "TypeError"]

\* pd.to_numeric(errors="coerce") on a cell; no string of this model reads
\* as a number.
ToNumeric(c) == IF c.t = "str" THEN NaN ELSE c

NumLess(a, b) == a.n * b.d < b.n * a.d

NumAdd(a, b) == Rat(a.n * b.d + b.n * a.d, a.d * b.d)

\* Python's order on the strings this model uses (str.__lt__), as a table.
SortedStrings ==
    << "2025-01-01", "2025-01-31", "2025-02-01", "2025-02-28", "2025-10-01",
       "2025-10-31", "2025-11-01", "2025-11-30", "2025-12-01", "2025-12-31",
       "9f8e7d6c5b4a", "A", "APAC", "B", "C", "DATA.CSV", "Europe",
       "North America", "Sample dataset", "South America", "Unit-Test",
       "c0ffee15ab1e", "data.csv", "sample", "sample dataset", "unit-test" >>

StrRank(x) == CHOOSE i \in 1..Len(SortedStrings) : SortedStrings[i] = x

StrLess(x, y) == StrRank(x) < StrRank(y)

\* str.lower() on the dataset names in use.
Lower(x) ==
    CASE x = "Sample dataset" -> "sample dataset"
      [] x = "Unit-Test" -> "unit-test"
      [] x = "DATA.CSV" -> "data.csv"
      [] OTHER -> x

\* ------------------------------------------------------------- sequences
RECURSIVE SeqsUpTo(_, _)
SeqsUpTo(S, n) ==
    IF n = 0 THEN {<<>>}
    ELSE LET shorter == SeqsUpTo(S, n - 1)
         IN  shorter \cup {Append(q, x) : q \in {r \in shorter : Len(r) = n - 1}, x \in S}

Range(q) == {q[i] : i \in 1..Len(q)}

\* Op(v), with v worked out once, however often Op uses it.
With(v, Op(_)) == CHOOSE r \in {Op(x) : x \in {v}} : TRUE

\* The sequence q with its elements worked out.
Tuple(q) == q \o <<>>

\* The elements of the finite set S in ascending order of the total order Less.
SortSet(S, Less(_, _)) ==
    With({<<Cardinality({o \in S : Less(o, x)}), x>> : x \in S},
         LAMBDA ranked :
            Tuple([i \in 1..Cardinality(ranked) |->
                     (CHOOSE p \in ranked : p[1] = i - 1)[2]]))

SelectIdx(q, Keep(_)) ==
    With(Tuple(q),
         LAMBDA s :
            LET F[i \in 0..Len(s)] ==
                    IF i = 0 THEN <<>>
                    ELSE IF Keep(s[i]) THEN Append(F[i - 1], s[i]) ELSE F[i - 1]
            IN  F[Len(s)])

\* ------------------------------------------------------------ DataFrames
\* Within one JSON object the keys come in this order.
KeyOrder == <<"region", "lat", "lon", "date", "revenue">>

RecordKeys(rec) == SelectIdx(KeyOrder, LAMBDA k : k \in DOMAIN rec)

\* The union of the records' keys, in first-seen order.
UnionKeys(records) ==
    LET F[i \in 0..Len(records)] ==
            IF i = 0 THEN <<>>
            ELSE With(F[i - 1],
                      LAMBDA seen :
                         seen \o SelectIdx(RecordKeys(records[i]),
                                           LAMBDA k : k \notin Range(seen)))
    IN  F[Len(records)]

\* pd.DataFrame.from_records on a list of dicts: one column per key seen,
\* a missing key reads NaN; the row index is taken from the column arrays,
\* so with no column at all the frame has no rows either.
FromRecords(records) ==
    With(UnionKeys(records),
         LAMBDA cols :
            [columns |-> cols,
             rows |-> IF cols = <<>> THEN <<>>
                      ELSE [i \in 1..Len(records) |->
                              [c \in Range(cols) |->
                                 IF c \in DOMAIN records[i] THEN records[i][c] ELSE NaN]]])

LenDf(df) == Len(df.rows)

\* DatasetMeta
DatasetMeta(dataset_id, name, rows, columns) ==
    [dataset_id |-> dataset_id, name |-> name, rows |-> rows, columns |-> columns]

SampleRow(region, lat, lon, date, revenue) ==
    [region |-> Str(region), lat |-> Rat(lat, 100), lon |-> Rat(lon, 100),
     date |-> Str(date), revenue |-> Num(revenue)]

SampleDataset ==
    FromRecords(<<
        SampleRow("North America", 3709, -9571, "2025-10-01", 410000),
        SampleRow("North America", 3709, -9571, "2025-11-01", 390000),
        SampleRow("North America", 3709, -9571, "2025-12-01", 420000),
        SampleRow("Europe", 5452, 1525, "2025-10-01", 270000),
        SampleRow("Europe", 5452, 1525, "2025-11-01", 280000),
        SampleRow("Europe", 5452, 1525, "2025-12-01", 300000),
        SampleRow("South America", -1424, -5193, "2025-10-01", 120000),
        SampleRow("South America", -1424, -5193, "2025-11-01", 125000),
        SampleRow("South America", -1424, -5193, "2025-12-01", 130000),
        SampleRow("APAC", 3405, 10062, "2025-10-01", 310000),
        SampleRow("APAC", 3405, 10062, "2025-11-01", 330000),
        SampleRow("APAC", 3405, 10062, "2025-12-01", 340000) >>)

SAMPLE_DATASET_ID == "sample"

SampleName == "Sample dataset"

\* uuid4().hex[:12]: any string of twelve hexadecimal digits.
Uuid4Hex12WithSample == {"c0ffee15ab1e", "9f8e7d6c5b4a", SAMPLE_DATASET_ID}

Uuid4Hex12 == {"c0ffee15ab1e", "9f8e7d6c5b4a"}

\* ------------------------------------------------------------ analytics
Ok(rows) == [ok |-> TRUE, err |-> "", rows |-> rows]

Raise(err) == [ok |-> FALSE, err |-> err, rows |-> <<>>]

\* _require_columns: the names of cols that are no column of df.
MissingColumns(df, cols) == SelectIdx(cols, LAMBDA c : c \notin Range(df.columns))

\* The order of group keys: strings by str order, the missing key last.
KeyLess(a, b) ==
    IF IsNull(a) THEN FALSE
    ELSE IF IsNull(b) THEN TRUE
    ELSE IF a.t = "str" /\ b.t = "str" THEN StrLess(a.s, b.s)
    ELSE IF a.t = "num" /\ b.t = "num" THEN NumLess(a, b)
    ELSE a.t = "num"

\* The keys of col in the order their group is first met in the rows.
FirstSeenKeys(rows, col) ==
    LET F[i \in 0..Len(rows)] ==
            IF i = 0 THEN <<>>
            ELSE With(F[i - 1],
                      LAMBDA seen :
                         IF rows[i][col] \in Range(seen) THEN seen
                         ELSE Append(seen, rows[i][col]))
    IN  F[Len(rows)]

\* groupby(col, dropna=False) with the default sort=True: one group per
\* distinct key, the missing key included, in ascending key order.
GroupKeys(rows, col) ==
    SortSet({rows[i][col] : i \in 1..Len(rows)}, KeyLess)

\* The cells of column col in all rows: the mutation of GroupCells.
GroupCellsAllRows(rows, keycol, key, col) ==
    Tuple([i \in 1..Len(rows) |-> rows[i][col]])

\* The cells of column col in the rows whose key column holds key.
GroupCells(rows, keycol, key, col) ==
    LET F[i \in 0..Len(rows)] ==
            IF i = 0 THEN <<>>
            ELSE IF rows[i][keycol] = key THEN Append(F[i - 1], rows[i][col])
            ELSE F[i - 1]
    IN  F[Len(rows)]

SumCells(cells) ==
    LET F[i \in 0..Len(cells)] ==
            IF i = 0 THEN Num(0)
            ELSE With(F[i - 1], LAMBDA sum : NumAdd(sum, cells[i]))
    IN  F[Len(cells)]

MinCell(cells) == CHOOSE c \in Range(cells) : \A o \in Range(cells) : ~NumLess(o, c)

MaxCell(cells) == CHOOSE c \in Range(cells) : \A o \in Range(cells) : ~NumLess(c, o)

\* The reduction over the cells that read as numbers, the others taken
\* for missing: the mutation of Reduce.
ReduceCoerced(agg, cells) ==
    With(SelectIdx(cells, LAMBDA c : c.t = "num"),
         LAMBDA valid :
            CASE agg = "sum" -> SumCells(valid)
              [] agg = "count" -> Num(Len(valid))
              [] agg = "mean" ->
                    IF valid = <<>> THEN NaN
                    ELSE With(SumCells(valid),
                              LAMBDA total : Rat(total.n, total.d * Len(valid)))
              [] agg = "min" -> IF valid = <<>> THEN NaN ELSE MinCell(valid)
              [] agg = "max" -> IF valid = <<>> THEN NaN ELSE MaxCell(valid))

\* SeriesGroupBy.agg(agg) on one group of the column as it is stored.
\* Missing cells are skipped; the sum of none is 0, the mean, min and max of
\* none are NaN; count counts every cell that is not missing, strings
\* included.  In a group that holds a string the other reductions work on
\* Python objects: number + string, number < string and the mean of
\* strings raise TypeError (a skipped missing cell is a 0 in the sum); the
\* sum, min or max of strings alone is a string.
Reduce(agg, cells) ==
    With(SelectIdx(cells, LAMBDA c : ~IsNull(c)),
         LAMBDA valid :
            IF agg = "count" THEN Num(Len(valid))
            ELSE IF \A i \in 1..Len(valid) : valid[i].t = "num"
            THEN CASE agg = "sum" -> SumCells(valid)
                   [] agg = "mean" ->
                         IF valid = <<>> THEN NaN
                         ELSE With(SumCells(valid),
                                   LAMBDA total : Rat(total.n, total.d * Len(valid)))
                   [] agg = "min" -> IF valid = <<>> THEN NaN ELSE MinCell(valid)
                   [] agg = "max" -> IF valid = <<>> THEN NaN ELSE MaxCell(valid)
            ELSE IF \/ agg = "mean"
                    \/ \E i \in 1..Len(valid) : valid[i].t = "num"
                    \/ Len(valid) < Len(cells)
            THEN TypeErr
            ELSE valid[1])

\* sort_values("value", ascending=True): the mutation of SortValuesDesc.
SortValuesAsc(rows) ==
    LET Insert(q, x) ==
            With(Cardinality({j \in 1..Len(q) : ~NumLess(x.value, q[j].value)}),
                 LAMBDA p : SubSeq(q, 1, p) \o <<x>> \o SubSeq(q, p + 1, Len(q)))
        F[i \in 0..Len(rows)] ==
            IF i = 0 THEN <<>>
            ELSE With(F[i - 1], LAMBDA sorted : Insert(sorted, rows[i]))
    IN  F[Len(rows)]

\* sort_values("value", ascending=False, kind="mergesort"): descending and
\* stable, rows of equal value keep their order.
SortValuesDesc(rows) ==
    LET Insert(q, x) ==
            With(Cardinality({j \in 1..Len(q) : ~NumLess(q[j].value, x.value)}),
                 LAMBDA p : SubSeq(q, 1, p) \o <<x>> \o SubSeq(q, p + 1, Len(q)))
        F[i \in 0..Len(rows)] ==
            IF i = 0 THEN <<>>
            ELSE With(F[i - 1], LAMBDA sorted : Insert(sorted, rows[i]))
    IN  F[Len(rows)]

NoCol == ""

\* The column holds a string: its dtype is object, not numeric.
IsObject(rows, col) == \E i \in 1..Len(rows) : rows[i][col].t = "str"

\* DataFrameGroupBy.mean(numeric_only=True) on one group of a coordinate
\* column: a column that is not numeric has no mean.
NumericOnlyMean(rows, region_col, key, col) ==
    IF IsObject(rows, col) THEN NaN
    ELSE Reduce("mean", GroupCells(rows, region_col, key, col))

region_aggregate(df, region_col, value_col, agg, lat_col, lon_col) ==
    IF MissingColumns(df, <<region_col, value_col>>) # <<>> THEN Raise("ValueError")
    ELSE
    LET withCoords == /\ lat_col # NoCol /\ lon_col # NoCol
                      /\ lat_col \in Range(df.columns)
                      /\ lon_col \in Range(df.columns)
        Group(key) ==
            IF withCoords
            THEN [region |-> key,
                  value |-> Reduce(agg, GroupCells(df.rows, region_col, key, value_col)),
                  lat |-> NumericOnlyMean(df.rows, region_col, key, lat_col),
                  lon |-> NumericOnlyMean(df.rows, region_col, key, lon_col)]
            ELSE [region |-> key,
                  value |-> Reduce(agg, GroupCells(df.rows, region_col, key, value_col))]
        Coerced(r) == [r EXCEPT !.value = ToNumeric(r.value)]
    IN  With(GroupKeys(df.rows, region_col),
             LAMBDA keys :
                With(Tuple([i \in 1..Len(keys) |-> Group(keys[i])]),
                     LAMBDA grouped :
                        IF \E i \in 1..Len(grouped) : grouped[i].value = TypeErr
                        THEN Raise("TypeError")
                        ELSE With(SelectIdx([i \in 1..Len(grouped) |-> Coerced(grouped[i])],
                                            LAMBDA r : ~IsNull(r.value)),
                                  LAMBDA kept : Ok(SortValuesDesc(kept)))))

\* str(r["region"]): the missing key reads "nan".
RegionStr(c) == IF IsNull(c) THEN Str("nan") ELSE c

\* RegionValue(region=str(r["region"]), value=float(r["value"]))
RegionValue(r) == [region |-> RegionStr(r.region), value |-> r.value]

Max0(n) == IF n < 0 THEN 0 ELSE n

\* The list as it is: the mutation of Reversed.
Unreversed(q) == q

\* list(reversed(q))
Reversed(q) == [i \in 1..Len(q) |-> q[Len(q) + 1 - i]]

\* values[:n], n >= 0
Prefix(q, n) == SubSeq(q, 1, IF n < Len(q) THEN n ELSE Len(q))

\* values[-n:], n > 0
Suffix(q, n) == SubSeq(q, IF n < Len(q) THEN Len(q) - n + 1 ELSE 1, Len(q))

rankings(df, region_col, value_col, agg, top_n) ==
    With(region_aggregate(df, region_col, value_col, agg, NoCol, NoCol),
         LAMBDA agg_df :
            LET values == [i \in 1..Len(agg_df.rows) |-> RegionValue(agg_df.rows[i])]
            IN  IF ~agg_df.ok
                THEN [ok |-> FALSE, err |-> agg_df.err, top |-> <<>>, bottom |-> <<>>]
                ELSE [ok |-> TRUE, err |-> "",
                      top |-> Prefix(values, Max0(top_n)),
                      bottom |-> IF top_n > 0
                                 THEN Reversed(Suffix(values, Max0(top_n)))
                                 ELSE <<>>])

\* The calendar dates pd.to_datetime reads in this model, each with the
\* end of its month.
MonthEnds ==
    [d \in {"2025-01-01", "2025-02-01", "2025-10-01", "2025-11-01", "2025-12-01"} |->
        CASE d = "2025-01-01" -> "2025-01-31"
          [] d = "2025-02-01" -> "2025-02-28"
          [] d = "2025-10-01" -> "2025-10-31"
          [] d = "2025-11-01" -> "2025-11-30"
          [] d = "2025-12-01" -> "2025-12-31"]

\* pd.to_datetime(errors="coerce", utc=True): NaT for what is no date.
ParsesAsDate(c) == c.t = "str" /\ c.s \in DOMAIN MonthEnds

\* The date as it was read, whatever freq: the mutation of Bucket.
BucketStart(c, freq) == c.s

\* pd.Grouper(freq=freq) on a parsed date, rendered by .dt.date.astype(str):
\* "M" is normalized to "ME" (the end of the month); "D" is the day.
Bucket(c, freq) == IF freq \in {"M", "ME"} THEN MonthEnds[c.s] ELSE c.s

\* sort_values(["date", "region"]): by date, then by region, missing last.
TrendLess(a, b) ==
    \/ StrLess(a[1], b[1])
    \/ a[1] = b[1] /\ a[2] # b[2] /\ KeyLess(a[2], b[2])

\* DataFrame.rename(columns=mapping): every column whose name is a key of
\* the mapping takes its new name, all of them at once.
RenameColumns(columns, mapping) ==
    [i \in 1..Len(columns) |->
        IF columns[i] \in DOMAIN mapping THEN mapping[columns[i]] ELSE columns[i]]

\* The name trends gives the bucket column before it renders it.
bucket_col == "__bucket__"

\* The columns of `out` when trends asks for out[bucket_col]: those of
\* reset_index() after the two renames.
TrendColumns(date_col, region_col, value_col) ==
    RenameColumns(RenameColumns(<<date_col, region_col, value_col>>,
                                (value_col :> "value") @@ (region_col :> "region")),
                  (date_col :> bucket_col))

\* out["date"] = ...; out.drop(columns=[bucket_col]): the column "date" is
\* written where it stands, or added last.
TrendOutputColumns(columns) ==
    With(SelectIdx(columns, LAMBDA c : c # bucket_col),
         LAMBDA kept : IF "date" \in Range(kept) THEN kept ELSE Append(kept, "date"))

trends(df, date_col, region_col, value_col, agg, freq) ==
    IF MissingColumns(df, <<date_col, region_col, value_col>>) # <<>>
    THEN Raise("ValueError")
    ELSE
    LET GroupOf(r) == <<Bucket(r[date_col], freq), r[region_col]>>
        Cells(tmp, g) ==
            With(SelectIdx(tmp, LAMBDA r : GroupOf(r) = g),
                 LAMBDA members : [i \in 1..Len(members) |-> members[i][value_col]])
        \* One row of `out`: its cells by position, then by final column name.
        Row(columns, final, g, value) ==
            [c \in Range(final) |->
                IF c = "date" THEN Str(g[1])
                ELSE <<Str(g[1]), g[2], value>>[CHOOSE i \in 1..3 : columns[i] = c]]
    IN  With(TrendColumns(date_col, region_col, value_col),
             LAMBDA columns :
                \* out[bucket_col] of two columns is a DataFrame, which has no .dt
                IF Cardinality({i \in 1..3 : columns[i] = bucket_col}) # 1
                THEN Raise("AttributeError")
                ELSE
                With(SelectIdx(df.rows,
                               LAMBDA r : ParsesAsDate(r[date_col]) /\ r[value_col].t = "num"),
                     LAMBDA tmp :
                        With(SortSet({GroupOf(tmp[i]) : i \in 1..Len(tmp)}, TrendLess),
                             LAMBDA order :
                                With(TrendOutputColumns(columns),
                                     LAMBDA final :
                                        Ok(Tuple([i \in 1..Len(order) |->
                                                    Row(columns, final, order[i],
                                                        Reduce(agg, Cells(tmp, order[i])))])))))) 

\* a / b of two numbers, b # 0
NumDiv(a, b) ==
    IF b.n < 0 THEN Rat(-(a.n * b.d), a.d * (-b.n)) ELSE Rat(a.n * b.d, a.d * b.n)

NoAnalyzableData ==
    [ok |-> TRUE, err |-> "", empty |-> TRUE,
     summary |-> <<>>, key_findings |-> <<>>, regional_comparison |-> <<>>]

\* The sum of all rows but the last: the mutation of Total.
TotalButLast(agg_rows) ==
    SumCells([i \in 1..(Len(agg_rows) - 1) |-> agg_rows[i].value])

\* total = float(agg_df["value"].sum())
Total(agg_rows) == SumCells([i \in 1..Len(agg_rows) |-> agg_rows[i].value])

\* The percentage as though a total of zero were one: the mutation of Pct.
PctOfOne(v, total) ==
    With(NumDiv(v, IF total = Num(0) THEN Num(1) ELSE total),
         LAMBDA share : Rat(share.n * 100, share.d))

\* pct: 0.0 if total == 0 else (v / total) * 100.0
Pct(v, total) ==
    IF total = Num(0) THEN Num(0)
    ELSE With(NumDiv(v, total), LAMBDA share : Rat(share.n * 100, share.d))

\* The last of bottom: the mutation of Worst.
WorstLastOfBottom(top, bottom) ==
    IF bottom # <<>> THEN bottom[Len(bottom)] ELSE top[Len(top)]

\* worst = bottom[0] if bottom else top[-1]
Worst(top, bottom) == IF bottom # <<>> THEN bottom[1] ELSE top[Len(top)]

\* executive_summary after the empty check, on the rows of agg_df and the
\* (top, bottom) of rankings; its strings kept as the values they are
\* formatted from: summary as [best, worst], each finding as a record, a
\* percentage as the exact number that "{:.1f}" then rounds to one decimal.
Summarize(agg_rows, top, bottom, metric, agg) ==
    LET total == Total(agg_rows)
        best == top[1]
        worst == Worst(top, bottom)
        both == top \o bottom
        regions == {both[i].region : i \in 1..Len(both)}
        First(region) == both[CHOOSE i \in 1..Len(both) :
                                /\ both[i].region = region
                                /\ \A j \in 1..(i - 1) : both[j].region # region]
    IN  IF top = <<>>
        THEN [ok |-> FALSE, err |-> "IndexError", empty |-> FALSE,
              summary |-> <<>>, key_findings |-> <<>>, regional_comparison |-> <<>>]
        ELSE [ok |-> TRUE, err |-> "", empty |-> FALSE,
              summary |-> [best |-> best.region, worst |-> worst.region,
                           metric |-> metric, agg |-> agg],
              key_findings |->
                  << [finding |-> "Top region", region |-> best.region,
                      value |-> best.value, pct |-> Pct(best.value, total)],
                     [finding |-> "Bottom region", region |-> worst.region,
                      value |-> worst.value, pct |-> Pct(worst.value, total)],
                     [finding |-> "Total across regions", region |-> Str(""),
                      value |-> total, pct |-> Num(0)] >>,
              regional_comparison |-> [r \in regions |-> First(r).value]]

executive_summary(df, metric, region_col, value_col, agg, top_n) ==
    With(region_aggregate(df, region_col, value_col, agg, NoCol, NoCol),
         LAMBDA agg_df :
            IF ~agg_df.ok
            THEN [ok |-> FALSE, err |-> agg_df.err, empty |-> FALSE,
                  summary |-> <<>>, key_findings |-> <<>>, regional_comparison |-> <<>>]
            ELSE IF agg_df.rows = <<>> THEN NoAnalyzableData
            ELSE With(rankings(df, region_col, value_col, agg, top_n),
                      LAMBDA ranked :
                         Summarize(agg_df.rows, ranked.top, ranked.bottom, metric, agg)))

\* ---------------------------------------------------------------- inputs
Threads == {"t1", "t2"}

NoThread == "none"

\* Optional[str] = None, and the empty query string, which "name or ..."
\* treats alike.
NoName == ""

Names == {NoName, "Unit-Test"}

EmptyDict == <<>>

TestPayload ==
    << [region |-> Str("A"), lat |-> Num(10), lon |-> Num(10),
        date |-> Str("2025-01-01"), revenue |-> Num(100)],
       [region |-> Str("A"), lat |-> Num(10), lon |-> Num(10),
        date |-> Str("2025-02-01"), revenue |-> Num(150)],
       [region |-> Str("B"), lat |-> Num(20), lon |-> Num(20),
        date |-> Str("2025-01-01"), revenue |-> Num(90)] >>

\* The JSON bodies posted to /datasets/json.
Payloads ==
    { <<>>,
      <<EmptyDict>>,
      <<[region |-> Str("B")], [region |-> Str("A"), revenue |-> Num(90)],
        [revenue |-> Num(90)]>>,
      TestPayload }

CsvFrame ==
    [columns |-> <<"region", "value">>,
     rows |-> << [region |-> Str("B"), value |-> Num(2)],
                 [region |-> Str("A"), value |-> Num(2)] >>]

EmptyFrame == [columns |-> <<>>, rows |-> <<>>]

\* The uploads posted to /datasets/csv: the file name, and what
\* pd.read_csv makes of the bytes.
CsvFiles ==
    { [filename |-> "", parses |-> TRUE, df |-> CsvFrame],
      [filename |-> "DATA.CSV", parses |-> FALSE, df |-> EmptyFrame],
      [filename |-> "DATA.CSV", parses |-> TRUE, df |-> CsvFrame] }

\* The dataset_id values requests ask for.
RequestIds == Uuid4Hex12 \cup {SAMPLE_DATASET_ID}

\* ----------------------------------------------------------------- state
VARIABLES
    data,       \* STORE._data: dataset_id -> DataFrame
    dataKeys,   \* the keys of STORE._data in dict (insertion) order
    names,      \* STORE._names: dataset_id -> display name
    lock,       \* the owner of STORE._lock, or NoThread
    pc,         \* where each request thread stands
    frame,      \* the locals of each thread's put_dataframe call
    last,       \* the response being sent, or NoResponse
    inserted,   \* history: the insertions that left their critical section
    call,       \* the arguments of a direct call of the aggregation engine
    ret         \* what that call returned

vars == <<data, dataKeys, names, lock, pc, frame, last, inserted, call, ret>>

storeVars == <<data, dataKeys, names, lock, pc, frame, last, inserted>>

NoFrame == [op |-> "", arg |-> <<>>, df |-> EmptyFrame, name |-> NoName, dataset_id |-> ""]

NoResponse ==
    [op |-> "", dataset_id |-> "", arg |-> <<>>,
     status |-> 0, body |-> <<>>, seen |-> 0]

Response(op, dataset_id, arg, status, body) ==
    [op |-> op, dataset_id |-> dataset_id, arg |-> arg,
     status |-> status, body |-> body, seen |-> Len(inserted)]

NoCall == [df |-> EmptyFrame, region_col |-> "", value_col |-> "", agg |-> ""]

NoRet == [fn |-> "", ok |-> FALSE, err |-> "", rows |-> <<>>]

\* Module-level bootstrap of store.py: STORE holds the sample dataset.
StoreInit ==
    /\ data = [i \in {SAMPLE_DATASET_ID} |-> SampleDataset]
    /\ dataKeys = <<SAMPLE_DATASET_ID>>
    /\ names = [i \in {SAMPLE_DATASET_ID} |-> SampleName]
    /\ lock = NoThread
    /\ pc = [t \in Threads |-> "idle"]
    /\ frame = [t \in Threads |-> NoFrame]
    /\ last = NoResponse
    /\ inserted = <<>>

Init == StoreInit /\ call = NoCall /\ ret = NoRet

\* ----------------------------------------------------------------- store
\* RLock.acquire: free, or already held by the caller.
CanAcquire(t) == lock = NoThread \/ lock = t

\* sorted(out, key=lambda m: m.name.lower()): stable, ascending.
SortByNameLower(metas) ==
    LET Insert(q, x) ==
            With(Cardinality({j \in 1..Len(q) :
                                ~StrLess(Lower(x.name), Lower(q[j].name))}),
                 LAMBDA p : SubSeq(q, 1, p) \o <<x>> \o SubSeq(q, p + 1, Len(q)))
        F[i \in 0..Len(metas)] ==
            IF i = 0 THEN <<>>
            ELSE With(F[i - 1], LAMBDA sorted : With(metas[i], LAMBDA x : Insert(sorted, x)))
    IN  F[Len(metas)]

\* DatasetStore.list, the body under the lock.
StoreList ==
    SortByNameLower(
        [i \in 1..Len(dataKeys) |->
            LET dataset_id == dataKeys[i]
            IN  DatasetMeta(dataset_id,
                            IF dataset_id \in DOMAIN names THEN names[dataset_id]
                            ELSE dataset_id,
                            LenDf(data[dataset_id]),
                            data[dataset_id].columns)])

\* A get that falls back to the sample dataset: the mutation of StoreGet.
StoreGetOrSample(dataset_id) ==
    [found |-> TRUE,
     df |-> IF dataset_id \in DOMAIN data THEN data[dataset_id] ELSE SampleDataset]

\* DatasetStore.get, the body under the lock: KeyError when absent.
StoreGet(dataset_id) ==
    IF dataset_id \in DOMAIN data
    THEN [found |-> TRUE, df |-> data[dataset_id]]
    ELSE [found |-> FALSE, df |-> EmptyFrame]

NotFound(op, dataset_id) == Response(op, dataset_id, <<>>, 404, <<>>)

BadRequest(op, dataset_id, arg) == Response(op, dataset_id, arg, 400, <<>>)

\* The engine raised err: a ValueError is answered with 400 by the handler,
\* any other exception with 500 by the framework.
Failed(op, dataset_id, err) ==
    Response(op, dataset_id, <<>>, IF err = "ValueError" THEN 400 ELSE 500, <<>>)

\* A response is on its way out: the model looks at it, then it is gone.
Sending == last # NoResponse

\* A request thread that is free to take the next request.
Idle(t) == pc[t] = "idle" /\ ~Sending

\* The response has left the server.
Sent ==
    /\ Sending
    /\ last' = NoResponse
    /\ UNCHANGED <<data, dataKeys, names, lock, pc, frame, inserted, call, ret>>

\* put_dataframe calls begun so far.
Started == Len(inserted) + Cardinality({t \in Threads : pc[t] # "idle"})

\* A handler that answers in one step leaves everything but `last` alone.
Answer(resp) ==
    /\ last' = resp
    /\ UNCHANGED <<data, dataKeys, names, lock, pc, frame, inserted, call, ret>>

\* -------------------------------------------------------------- handlers
\* GET /datasets
ListDatasets ==
    /\ \E t \in Threads : Idle(t) /\ CanAcquire(t)
    /\ Answer(Response("list_datasets", "", <<>>, 200, StoreList))

\* GET /datasets/{dataset_id}/schema
DatasetSchema ==
    /\ \E t \in Threads : Idle(t) /\ CanAcquire(t)
    /\ \E dataset_id \in RequestIds :
          LET got == StoreGet(dataset_id)
          IN  Answer(IF ~got.found THEN NotFound("dataset_schema", dataset_id)
                     ELSE Response("dataset_schema", dataset_id, <<>>, 200,
                                   [dataset_id |-> dataset_id,
                                    columns |-> got.df.columns,
                                    rows |-> LenDf(got.df)]))

PreviewLimits == {1, 10}

\* df.head(limit)
DfHead(rows, limit) == SubSeq(rows, 1, IF limit < Len(rows) THEN limit ELSE Len(rows))

\* GET /datasets/{dataset_id}/preview
DatasetPreview ==
    /\ \E t \in Threads : Idle(t) /\ CanAcquire(t)
    /\ \E dataset_id \in RequestIds, limit \in PreviewLimits :
          LET got == StoreGet(dataset_id)
          IN  Answer(IF ~got.found THEN NotFound("dataset_preview", dataset_id)
                     ELSE Response("dataset_preview", dataset_id, <<>>, 200,
                                   [dataset_id |-> dataset_id,
                                    rows |-> LenDf(got.df),
                                    preview |-> DfHead(got.df.rows, limit)]))

\* The start of put_dataframe(df, name=name) in handler op:
\* dataset_id = uuid4().hex[:12], before the lock is asked for.
StartPut(t, op, arg, df, name) ==
    /\ Started < MaxPuts
    /\ \E dataset_id \in Uuid4Hex12 :
          frame' = [frame EXCEPT ![t] =
                      [op |-> op, arg |-> arg, df |-> df, name |-> name,
                       dataset_id |-> dataset_id]]
    /\ pc' = [pc EXCEPT ![t] = "put_lock"]
    /\ UNCHANGED <<data, dataKeys, names, lock, last, inserted, call, ret>>

\* "if not records" of ingest_json.
NotRecords(records) == records = <<>>

\* POST /datasets/json: the check, then put_records up to the call of
\* put_dataframe.
IngestJson(t) ==
    /\ Idle(t)
    /\ \E records \in Payloads, name \in Names :
          IF NotRecords(records)
          THEN Answer(BadRequest("ingest_json", "", records))
          ELSE StartPut(t, "ingest_json", records, FromRecords(records), name)

\* file.filename.lower().endswith(".csv") on the file names in use.
EndsWithCsv(filename) == Lower(filename) = "data.csv"

\* POST /datasets/csv
IngestCsv(t) ==
    /\ Idle(t)
    /\ \E file \in CsvFiles, name \in Names :
          IF file.filename = "" \/ ~EndsWithCsv(file.filename) \/ ~file.parses
          THEN Answer(BadRequest("ingest_csv", "", <<>>))
          ELSE StartPut(t, "ingest_csv", <<>>, file.df,
                        IF name # NoName THEN name ELSE file.filename)

\* put_dataframe: with self._lock
PutAcquire(t) ==
    /\ pc[t] = "put_lock"
    /\ ~Sending
    /\ CanAcquire(t)
    /\ lock' = t
    /\ pc' = [pc EXCEPT ![t] = "put_data"]
    /\ UNCHANGED <<data, dataKeys, names, frame, last, inserted, call, ret>>

\* dict.__setitem__: a new key goes last, a key already there keeps its place.
SetItem(d, key, value) == [k \in DOMAIN d \cup {key} |-> IF k = key THEN value ELSE d[k]]

\* df.reset_index(drop=True): the rows, numbered anew from 0 in their order.
ResetIndex(df) == [columns |-> df.columns, rows |-> [i \in 1..Len(df.rows) |-> df.rows[i]]]

\* put_dataframe: self._data[dataset_id] = df.reset_index(drop=True)
PutData(t) ==
    /\ pc[t] = "put_data"
    /\ ~Sending
    /\ data' = SetItem(data, frame[t].dataset_id, ResetIndex(frame[t].df))
    /\ dataKeys' = IF frame[t].dataset_id \in DOMAIN data THEN dataKeys
                   ELSE Append(dataKeys, frame[t].dataset_id)
    /\ pc' = [pc EXCEPT ![t] = "put_names"]
    /\ UNCHANGED <<names, lock, frame, last, inserted, call, ret>>

\* put_dataframe: self._names[dataset_id] = name or dataset_id
PutNames(t) ==
    /\ pc[t] = "put_names"
    /\ ~Sending
    /\ names' = SetItem(names, frame[t].dataset_id,
                        IF frame[t].name # NoName THEN frame[t].name
                        ELSE frame[t].dataset_id)
    /\ pc' = [pc EXCEPT ![t] = "put_meta"]
    /\ UNCHANGED <<data, dataKeys, lock, frame, last, inserted, call, ret>>

\* put_dataframe: meta = DatasetMeta(...), the lock released, and the
\* handler's answer made of meta.
PutReturn(t) ==
    /\ pc[t] = "put_meta"
    /\ ~Sending
    /\ LET meta == DatasetMeta(frame[t].dataset_id, names[frame[t].dataset_id],
                               LenDf(frame[t].df), frame[t].df.columns)
       IN  /\ last' = Response(frame[t].op, meta.dataset_id, frame[t].arg, 200, meta)
           /\ inserted' = Append(inserted, [meta |-> meta, op |-> frame[t].op,
                                            arg |-> frame[t].arg])
    /\ lock' = NoThread
    /\ frame' = [frame EXCEPT ![t] = NoFrame]
    /\ pc' = [pc EXCEPT ![t] = "idle"]
    /\ UNCHANGED <<data, dataKeys, names, call, ret>>

Metrics == {"revenue", "profit"}

RegionCols == {"region", "area"}

\* The (metric, region_col) queries of /regions.
RegionsQueries == {<<"revenue", "region">>, <<"profit", "region">>, <<"revenue", "area">>}

\* The (region_col, agg) queries of /analytics/regions.
AnalyticsQueries == {<<"region", "sum">>, <<"area", "sum">>, <<"region", "count">>}

\* GET /regions
GetRegions ==
    /\ \E t \in Threads : Idle(t) /\ CanAcquire(t)
    /\ \E dataset_id \in RequestIds, q \in RegionsQueries :
          LET metric == q[1]
              region_col == q[2]
              got == StoreGet(dataset_id)
              cols == Range(got.df.columns)
              value_col == IF metric \in cols THEN metric ELSE "value"
              Coord(r, c) == IF c \notin DOMAIN r THEN NaN ELSE r[c]
          IN  Answer(IF ~got.found THEN NotFound("get_regions", dataset_id)
                     ELSE IF metric \notin cols /\ "value" \notin cols
                     THEN BadRequest("get_regions", dataset_id, <<>>)
                     ELSE With(region_aggregate(got.df, region_col, value_col,
                                                "sum", "lat", "lon"),
                               LAMBDA agg_df :
                                  IF ~agg_df.ok
                                  THEN Failed("get_regions", dataset_id, agg_df.err)
                                  ELSE Response("get_regions", dataset_id, <<>>, 200,
                                                [i \in 1..Len(agg_df.rows) |->
                                                   [region |-> agg_df.rows[i].region,
                                                    metric |-> metric,
                                                    value |-> agg_df.rows[i].value,
                                                    lat |-> Coord(agg_df.rows[i], "lat"),
                                                    lon |-> Coord(agg_df.rows[i], "lon")]])))

\* GET /analytics/regions
AnalyticsRegions ==
    /\ \E t \in Threads : Idle(t) /\ CanAcquire(t)
    /\ \E dataset_id \in RequestIds, q \in AnalyticsQueries :
          LET region_col == q[1]
              agg == q[2]
              got == StoreGet(dataset_id)
          IN  Answer(IF ~got.found THEN NotFound("analytics_regions", dataset_id)
                     ELSE With(region_aggregate(got.df, region_col, "revenue", agg,
                                                NoCol, NoCol),
                               LAMBDA out :
                                  IF ~out.ok
                                  THEN Failed("analytics_regions", dataset_id, out.err)
                                  ELSE Response("analytics_regions", dataset_id, <<>>, 200,
                                                [dataset_id |-> dataset_id,
                                                 value_col |-> "revenue",
                                                 agg |-> agg, regions |-> out.rows])))

\* The (date_col, region_col, freq) queries of /analytics/trends.
TrendsQueries ==
    {<<"date", "region", "M">>, <<"date", "area", "M">>, <<"date", "region", "D">>,
     <<"region", "lat", "M">>}

\* GET /analytics/trends
AnalyticsTrends ==
    /\ \E t \in Threads : Idle(t) /\ CanAcquire(t)
    /\ \E dataset_id \in RequestIds, q \in TrendsQueries :
          LET got == StoreGet(dataset_id)
          IN  Answer(IF ~got.found THEN NotFound("analytics_trends", dataset_id)
                     ELSE With(trends(got.df, q[1], q[2], "revenue", "sum", q[3]),
                               LAMBDA out :
                                  IF ~out.ok
                                  THEN Failed("analytics_trends", dataset_id, out.err)
                                  ELSE Response("analytics_trends", dataset_id, <<>>, 200,
                                                [dataset_id |-> dataset_id,
                                                 value_col |-> "revenue",
                                                 agg |-> "sum", freq |-> q[3],
                                                 series |-> out.rows])))

\* Query(3, ge=1, le=10)
DefaultTopN == 3

\* The (region_col, top_n) queries of /analytics/executive-summary.
SummaryQueries == {<<"region", 1>>, <<"region", DefaultTopN>>, <<"area", DefaultTopN>>}

\* GET /analytics/executive-summary
AnalyticsExecutiveSummary ==
    /\ \E t \in Threads : Idle(t) /\ CanAcquire(t)
    /\ \E dataset_id \in RequestIds, q \in SummaryQueries :
          LET got == StoreGet(dataset_id)
          IN  Answer(IF ~got.found
                     THEN NotFound("analytics_executive_summary", dataset_id)
                     ELSE With(executive_summary(got.df, "revenue", q[1], "revenue",
                                                 "sum", q[2]),
                               LAMBDA out :
                                  IF ~out.ok
                                  THEN Failed("analytics_executive_summary",
                                              dataset_id, out.err)
                                  ELSE Response("analytics_executive_summary",
                                                dataset_id, <<>>, 200,
                                                [dataset_id |-> dataset_id,
                                                 empty |-> out.empty,
                                                 summary |-> out.summary,
                                                 key_findings |-> out.key_findings,
                                                 regional_comparison |->
                                                     out.regional_comparison])))

Next ==
    \/ Sent
    \/ ListDatasets
    \/ DatasetSchema
    \/ DatasetPreview
    \/ GetRegions
    \/ AnalyticsRegions
    \/ AnalyticsTrends
    \/ AnalyticsExecutiveSummary
    \/ \E t \in Threads :
        \/ IngestJson(t)
        \/ IngestCsv(t)
        \/ PutAcquire(t)
        \/ PutData(t)
        \/ PutNames(t)
        \/ PutReturn(t)

Spec == Init /\ [][Next]_vars

\* -------------------------------------------- the store, called directly
\* STORE.put_records(records, name=name), up to the call of put_dataframe.
CallPutRecords(t) ==
    /\ Idle(t)
    /\ \E records \in Payloads, name \in Names :
          StartPut(t, "put_records", records, FromRecords(records), name)

\* STORE.put_dataframe(df, name=name), up to the lock.
CallPutDataframe(t) ==
    /\ Idle(t)
    /\ \E name \in Names : StartPut(t, "put_dataframe", <<>>, CsvFrame, name)

\* STORE.get(dataset_id): the dataset, or KeyError (written as status 404).
CallGet ==
    /\ \E t \in Threads : Idle(t) /\ CanAcquire(t)
    /\ \E dataset_id \in RequestIds :
          LET got == StoreGet(dataset_id)
          IN  Answer(IF ~got.found THEN NotFound("get", dataset_id)
                     ELSE Response("get", dataset_id, <<>>, 200, got.df))

\* STORE.list()
CallList ==
    /\ \E t \in Threads : Idle(t) /\ CanAcquire(t)
    /\ Answer(Response("list", "", <<>>, 200, StoreList))

NextStore ==
    \/ Sent
    \/ CallGet
    \/ CallList
    \/ \E t \in Threads :
        \/ CallPutRecords(t)
        \/ CallPutDataframe(t)
        \/ PutAcquire(t)
        \/ PutData(t)
        \/ PutNames(t)
        \/ PutReturn(t)

SpecStore == Init /\ [][NextStore]_vars

\* ------------------------------------------- the engine, called directly
Aggs == {"sum", "mean", "min", "max", "count"}

AggRegions == {Str("A"), Str("B"), NaN}

AggValues == {Num(-1), Num(1), Num(2), NaN}

AggFrames ==
    {[columns |-> <<"region", "revenue">>, rows |-> rows] :
        rows \in SeqsUpTo([region : AggRegions, revenue : AggValues], MaxRows)}

AggCalls ==
    [df : AggFrames, region_col : RegionCols, value_col : Metrics, agg : Aggs]

\* Frames whose value column holds a string among its numbers.
ObjectValues == {Num(1), Num(2), Str("n/a")}

ObjectFrames ==
    {[columns |-> <<"region", "revenue">>, rows |-> rows] :
        rows \in SeqsUpTo([region : {Str("A"), Str("B")}, revenue : ObjectValues], MaxRows)}

ObjectCalls ==
    [df : ObjectFrames, region_col : {"region"}, value_col : {"revenue"}, agg : Aggs]

InitAgg == StoreInit /\ (call \in AggCalls \/ call \in ObjectCalls) /\ ret = NoRet

Returned(fn, result) ==
    [fn |-> fn, ok |-> result.ok, err |-> result.err, rows |-> result.rows]

CallRegionAggregate ==
    /\ ret = NoRet
    /\ ret' = Returned("region_aggregate",
                       region_aggregate(call.df, call.region_col, call.value_col,
                                        call.agg, NoCol, NoCol))
    /\ UNCHANGED <<storeVars, call>>

NextAgg == CallRegionAggregate

SpecAgg == InitAgg /\ [][NextAgg]_vars

\* ------------------------- rankings and executive_summary, called directly
RankValues == {Num(-1), Num(0), Num(1), Num(3)}

RankFrames ==
    {[columns |-> <<"region", "revenue">>, rows |-> rows] :
        rows \in SeqsUpTo([region : AggRegions, revenue : RankValues], MaxRows)}

RankAggs == {"sum"}

RankCalls ==
    [df : RankFrames, region_col : RegionCols, value_col : {"revenue"}, agg : RankAggs]

\* top_n of rankings: any int.
RankTopNs == {-1, 0, 1, 2, 3}

\* top_n of executive_summary as the route hands it over: ge=1.
SummaryTopNs == {1, 2, 3}

InitRank == StoreInit /\ call \in RankCalls /\ ret = NoRet

CallRankings ==
    /\ ret = NoRet
    /\ \E top_n \in RankTopNs :
          ret' = With(rankings(call.df, call.region_col, call.value_col, call.agg, top_n),
                      LAMBDA r :
                         [fn |-> "rankings", ok |-> r.ok, err |-> r.err, rows |-> <<>>,
                          top_n |-> top_n, top |-> r.top, bottom |-> r.bottom])
    /\ UNCHANGED <<storeVars, call>>

CallExecutiveSummary ==
    /\ ret = NoRet
    /\ \E top_n \in SummaryTopNs :
          ret' = With(executive_summary(call.df, "revenue", call.region_col,
                                        call.value_col, call.agg, top_n),
                      LAMBDA r :
                         [fn |-> "executive_summary", ok |-> r.ok, err |-> r.err,
                          rows |-> <<>>, top_n |-> top_n, empty |-> r.empty,
                          summary |-> r.summary, key_findings |-> r.key_findings,
                          regional_comparison |-> r.regional_comparison])
    /\ UNCHANGED <<storeVars, call>>

NextRank == CallRankings \/ CallExecutiveSummary

SpecRank == InitRank /\ [][NextRank]_vars

\* ------------------------------------------------- trends, called directly
TrendDates == {Str("2025-01-01"), Str("2025-02-01"), Str("soon")}

TrendRegions == {Str("A"), Str("B")}

TrendValues == {Num(1), Num(2), Str("n/a")}

\* Rows by the role of their cells: d the date, r the region, v the value.
TrendRows == [d : TrendDates, r : TrendRegions, v : TrendValues]

\* The DataFrame of these rows whose columns bear the names nm, by role.
TrendFrame(rows, nm) ==
    [columns |-> <<nm.date_col, nm.region_col, nm.value_col>>,
     rows |-> [i \in 1..Len(rows) |->
                 (nm.date_col :> rows[i].d) @@ (nm.region_col :> rows[i].r)
                     @@ (nm.value_col :> rows[i].v)]]

DefaultColumns == [date_col |-> "date", region_col |-> "region", value_col |-> "revenue"]

ColumnNames == {"date", "region", "value", "when"}

\* Every choice of three pairwise distinct column names for the three roles.
ColumnChoices ==
    {nm \in [date_col : ColumnNames, region_col : ColumnNames, value_col : ColumnNames] :
        /\ nm.date_col # nm.region_col
        /\ nm.date_col # nm.value_col
        /\ nm.region_col # nm.value_col}

TrendCall(rows, nm, agg, freq) ==
    [df |-> TrendFrame(rows, nm), date_col |-> nm.date_col,
     region_col |-> nm.region_col, value_col |-> nm.value_col,
     agg |-> agg, freq |-> freq]

\* The calls with the default column names: by month under sum, and on
\* shorter frames under every agg and freq in use.
DefaultTrendCall ==
    \/ \E rows \in SeqsUpTo(TrendRows, MaxRows) :
          call = TrendCall(rows, DefaultColumns, "sum", "M")
    \/ \E rows \in SeqsUpTo(TrendRows, MaxRows - 1),
           agg \in {"sum", "count"}, freq \in {"M", "D"} :
          call = TrendCall(rows, DefaultColumns, agg, freq)

\* The calls under every choice of column names.
RenamedTrendCall ==
    \E rows \in SeqsUpTo(TrendRows, MaxRows - 1), nm \in ColumnChoices :
        call = TrendCall(rows, nm, "sum", "M")

InitTrends == StoreInit /\ (DefaultTrendCall \/ RenamedTrendCall) /\ ret = NoRet

CallTrends ==
    /\ ret = NoRet
    /\ ret' = Returned("trends",
                       trends(call.df, call.date_col, call.region_col, call.value_col,
                              call.agg, call.freq))
    /\ UNCHANGED <<storeVars, call>>

NextTrends == CallTrends

SpecTrends == InitTrends /\ [][NextTrends]_vars

\* ------------------------------------------------------------ properties
\* The cell a record holds under key k, NaN when it has no such key.
Field(rec, k) == IF k \in DOMAIN rec THEN rec[k] ELSE NaN

\* The place of x in the sequence q.
PosIn(q, x) == CHOOSE i \in 1..Len(q) : q[i] = x

\* The insertions in flight: an identifier is drawn, the call has not returned.
InFlight == {t \in Threads : pc[t] # "idle"}

\* C1: the identifier of an insertion that has not yet written is no key of
\* the store, and no two insertions in flight hold the same identifier; so
\* no insertion overwrites an entry of the registry.
C1_FreshIdentifier ==
    \A t \in InFlight :
        /\ pc[t] \in {"put_lock", "put_data"} => frame[t].dataset_id \notin DOMAIN data
        /\ \A u \in InFlight \ {t} : frame[u].dataset_id # frame[t].dataset_id

\* C2: every list() result holds exactly one entry for the sample and for
\* each insertion that has left its critical section, the entry being the
\* metadata of that insertion; and a get() that succeeds finds the name of
\* its dataset stored.
C2_AtomicSnapshot ==
    /\ last.op = "list" =>
          /\ Len(last.body) = 1 + last.seen
          /\ \A k \in 1..last.seen :
                Cardinality({i \in 1..Len(last.body) : last.body[i] = inserted[k].meta}) = 1
    /\ last.op = "get" /\ last.status = 200 => last.dataset_id \in DOMAIN names

\* C3: a dataset that get() can return stays in the store, with the same
\* rows and columns, through every step of every handler.
C3_NeverReplaced ==
    [][\A id \in DOMAIN data : id \in DOMAIN data' /\ data'[id] = data[id]]_vars

\* The (region, date) pairs of the rows of a dataset.
RegionDates(df) == {<<df.rows[i]["region"], df.rows[i]["date"]>> : i \in 1..Len(df.rows)}

\* C4: in every reachable state "sample" resolves to the demonstration
\* dataset of 12 rows, one for each of 4 regions in each of 3 months, and
\* list() has an entry for it; the answers of the handlers say the same.
C4_SampleResolves ==
    /\ StoreGet(SAMPLE_DATASET_ID).found
    /\ StoreGet(SAMPLE_DATASET_ID).df = SampleDataset
    /\ LenDf(StoreGet(SAMPLE_DATASET_ID).df) = 12
    /\ Cardinality(RegionDates(StoreGet(SAMPLE_DATASET_ID).df)) = 12
    /\ Cardinality({p[1] : p \in RegionDates(StoreGet(SAMPLE_DATASET_ID).df)}) = 4
    /\ Cardinality({p[2] : p \in RegionDates(StoreGet(SAMPLE_DATASET_ID).df)}) = 3
    /\ \E i \in 1..Len(StoreList) : StoreList[i].dataset_id = SAMPLE_DATASET_ID
    /\ last.op = "list_datasets" =>
          \E i \in 1..Len(last.body) :
              last.body[i].dataset_id = SAMPLE_DATASET_ID /\ last.body[i].rows = 12
    /\ last.op = "dataset_schema" /\ last.dataset_id = SAMPLE_DATASET_ID =>
          last.status = 200 /\ last.body.rows = 12

\* C4 witness: the schema of "sample" is answered after two insertions.
C4_Witness ==
    /\ last.op = "dataset_schema"
    /\ last.dataset_id = SAMPLE_DATASET_ID
    /\ last.status = 200
    /\ Len(inserted) = 2

\* C5: a put_records call with no records stores nothing and does not
\* return metadata.
C5_EmptyRecordsRejected ==
    /\ \A k \in 1..Len(inserted) :
          inserted[k].op = "put_records" => inserted[k].arg # <<>>
    /\ last.op = "put_records" /\ last.arg = <<>> => last.status # 200

\* The handlers that take a dataset_id.
DatasetIdOps ==
    {"dataset_schema", "dataset_preview", "get_regions", "analytics_regions",
     "analytics_trends", "analytics_executive_summary"}

\* C6: get fails exactly for the identifiers that are no key of the store
\* and returns what is stored otherwise; a handler that takes a dataset_id
\* answers 404 exactly when the identifier is unknown, and the step that
\* answers 404 leaves the store as it was.
C6_UnknownIdIs404 ==
    /\ [](/\ \A id \in RequestIds :
               /\ StoreGet(id).found <=> id \in DOMAIN data
               /\ StoreGet(id).found => StoreGet(id).df = data[id]
          /\ last.op \in DatasetIdOps =>
               /\ last.status = 404 <=> last.dataset_id \notin DOMAIN data
               /\ last.op = "dataset_schema" /\ last.status = 200 =>
                     /\ last.body.columns = data[last.dataset_id].columns
                     /\ last.body.rows = Len(data[last.dataset_id].rows))
    /\ [][last'.status = 404 => UNCHANGED <<data, dataKeys, names>>]_vars

\* C6 witness: the executive summary of an unknown identifier is refused
\* while another inserted dataset is stored.
C6_Witness ==
    /\ last.op = "analytics_executive_summary"
    /\ last.status = 404
    /\ last.dataset_id \notin DOMAIN data
    /\ Len(inserted) = 1

\* C7: when put_records of N > 0 records returns, the dataset stored under
\* the returned identifier has N rows and the union of the records' keys as
\* columns, and the metadata reports N rows and those columns.
C7_RoundTrip ==
    last.op = "put_records" /\ last.status = 200 /\ last.arg # <<>> =>
        LET stored == StoreGet(last.dataset_id)
        IN  /\ stored.found
            /\ LenDf(stored.df) = Len(last.arg)
            /\ Range(stored.df.columns)
                  = UNION {DOMAIN last.arg[i] : i \in 1..Len(last.arg)}
            /\ last.body.rows = Len(last.arg)
            /\ last.body.columns = stored.df.columns

\* C8: the rows region_aggregate returns have pairwise distinct regions,
\* each the key of a group of the input (the missing key being one), no
\* value is smaller than the value of the row after it, and under sum and
\* count of a value column that holds no string every group of the input
\* has its row.
C8_DistinctRegionsDescending ==
    ret.fn = "region_aggregate" /\ ret.ok =>
        LET rows == ret.rows
            keys == {call.df.rows[i][call.region_col] : i \in 1..Len(call.df.rows)}
        IN  /\ \A i, j \in 1..Len(rows) : i # j => rows[i].region # rows[j].region
            /\ \A i \in 1..Len(rows) : rows[i].region \in keys
            /\ \A i \in 1..(Len(rows) - 1) : ~NumLess(rows[i].value, rows[i + 1].value)
            /\ call.agg \in {"sum", "count"} /\ ~IsObject(call.df.rows, call.value_col) =>
                  {rows[i].region : i \in 1..Len(rows)} = keys

\* C8 witness: three groups, the missing region among them, with values
\* that are not all equal.
C8_Witness ==
    /\ ret.fn = "region_aggregate"
    /\ ret.ok
    /\ Len(ret.rows) = 3
    /\ \E i \in 1..3 : IsNull(ret.rows[i].region)
    /\ NumLess(ret.rows[3].value, ret.rows[1].value)

\* The sum of the revenue of the first n records whose region is region.
RECURSIVE RegionTotal(_, _, _)
RegionTotal(records, region, n) ==
    IF n = 0 THEN 0
    ELSE RegionTotal(records, region, n - 1)
         + (IF Field(records[n], "region") = region /\ ~IsNull(Field(records[n], "revenue"))
            THEN Field(records[n], "revenue").n ELSE 0)

\* The insertion that last wrote the dataset stored under dataset_id.
LastInsertion(dataset_id) ==
    LET ks == {k \in 1..Len(inserted) : inserted[k].meta.dataset_id = dataset_id}
    IN  inserted[CHOOSE k \in ks : \A j \in ks : j <= k]

\* C9: /analytics/regions with agg=sum, asked for the identifier that an
\* ingestion of records returned, answers one row for each region of those
\* records, its value the sum of the revenue of that region's records,
\* whatever else is stored; A:100, A:150, B:90 gives A=250, then B=90.
C9_SumPerRegion ==
    (/\ last.op = "analytics_regions"
     /\ last.status = 200
     /\ last.body.agg = "sum"
     /\ last.dataset_id # SAMPLE_DATASET_ID
     /\ LastInsertion(last.dataset_id).op = "ingest_json") =>
        LET records == LastInsertion(last.dataset_id).arg
            rows == last.body.regions
            regions == {Field(records[i], "region") : i \in 1..Len(records)}
        IN  /\ Len(rows) = Cardinality(regions)
            /\ {rows[i].region : i \in 1..Len(rows)} = regions
            /\ \A i \in 1..Len(rows) :
                  rows[i].value = Num(RegionTotal(records, rows[i].region, Len(records)))
            /\ records = TestPayload =>
                  rows = << [region |-> Str("A"), value |-> Num(250)],
                            [region |-> Str("B"), value |-> Num(90)] >>

\* C9 witness: the three test records are summed while the dataset of
\* another ingestion is stored under another identifier.
C9_Witness ==
    /\ last.op = "analytics_regions"
    /\ last.status = 200
    /\ last.body.agg = "sum"
    /\ Len(inserted) = 2
    /\ inserted[1].op = "ingest_json"
    /\ inserted[1].arg # TestPayload
    /\ inserted[1].meta.dataset_id # last.dataset_id
    /\ inserted[2].meta.dataset_id = last.dataset_id
    /\ inserted[2].arg = TestPayload

\* C10 as stated: regions of equal value come in the order in which their
\* groups are first met in the input rows.
C10_TiesInFirstSeenOrder ==
    ret.fn = "region_aggregate" /\ ret.ok =>
        LET first == FirstSeenKeys(call.df.rows, call.region_col)
        IN  \A i, j \in 1..Len(ret.rows) :
                i < j /\ ret.rows[i].value = ret.rows[j].value =>
                    PosIn(first, ret.rows[i].region) < PosIn(first, ret.rows[j].region)

\* C10: regions of equal value come in ascending order of their region
\* key, the missing key last, whatever the order of the input rows.
C10_TiesInKeyOrder ==
    ret.fn = "region_aggregate" /\ ret.ok =>
        \A i, j \in 1..Len(ret.rows) :
            i < j /\ ret.rows[i].value = ret.rows[j].value =>
                KeyLess(ret.rows[i].region, ret.rows[j].region)

\* C10 witness: two regions of equal value, the one that comes first in
\* the result met later in the input.
C10_Witness ==
    /\ ret.fn = "region_aggregate"
    /\ ret.ok
    /\ LET first == FirstSeenKeys(call.df.rows, call.region_col)
       IN  \E i, j \in 1..Len(ret.rows) :
               /\ i < j
               /\ ret.rows[i].value = ret.rows[j].value
               /\ PosIn(first, ret.rows[j].region) < PosIn(first, ret.rows[i].region)

\* The aggregation a direct call of rankings or executive_summary works on.
CallAggregate ==
    region_aggregate(call.df, call.region_col, call.value_col, call.agg, NoCol, NoCol)

Least(a, b) == IF a < b THEN a ELSE b

\* C11: with k aggregated rows and n = min(max(top_n, 0), k), top is the
\* first n aggregated rows, values non-increasing; bottom is the last n
\* aggregated rows reversed, values non-decreasing, bottom[0] a region of
\* the smallest value; both are empty when top_n <= 0; when k < 2n the two
\* lists share 2n - k rows and keep them both.
C11_TopAndBottom ==
    ret.fn = "rankings" /\ ret.ok =>
        LET rows == CallAggregate.rows
            k == Len(rows)
            n == Least(Max0(ret.top_n), k)
            top == ret.top
            bottom == ret.bottom
        IN  /\ Len(top) = n
            /\ \A i \in 1..n : top[i] = RegionValue(rows[i])
            /\ \A i \in 1..(n - 1) : ~NumLess(top[i].value, top[i + 1].value)
            /\ Len(bottom) = n
            /\ \A i \in 1..n : bottom[i] = RegionValue(rows[k + 1 - i])
            /\ \A i \in 1..(n - 1) : ~NumLess(bottom[i + 1].value, bottom[i].value)
            /\ n > 0 => \A i \in 1..k : ~NumLess(rows[i].value, bottom[1].value)
            /\ ret.top_n <= 0 => top = <<>> /\ bottom = <<>>
            /\ k < 2 * n =>
                  Cardinality({i \in 1..n : \E j \in 1..n : top[i] = bottom[j]}) = 2 * n - k

\* C11 witness: three regions of values not all equal ranked with
\* top_n = 2, so that the middle region is in both lists.
C11_Witness ==
    /\ ret.fn = "rankings"
    /\ ret.ok
    /\ ret.top_n = 2
    /\ Len(CallAggregate.rows) = 3
    /\ Len(ret.top) = 2
    /\ Len(ret.bottom) = 2
    /\ ret.top[2] = ret.bottom[2]
    /\ NumLess(ret.bottom[1].value, ret.top[1].value)

\* The rows of a direct call of trends that survive the two coercions: the
\* date is a calendar date and the value a number.
TrendKept ==
    SelectSeq(call.df.rows,
              LAMBDA r : /\ r[call.date_col] \in {Str("2025-01-01"), Str("2025-02-01")}
                         /\ r[call.value_col] \in {Num(1), Num(2)})

\* The ISO date of the end of the period of freq that holds the date d.
PeriodEnd(d, freq) ==
    IF freq = "D" THEN d
    ELSE IF d = "2025-01-01" THEN "2025-01-31" ELSE "2025-02-28"

\* The (bucket, region) pair of a surviving row.
TrendPair(r) == <<PeriodEnd(r[call.date_col].s, call.freq), r[call.region_col]>>

\* The sum of the values of the first n surviving rows of the pair p.
RECURSIVE PairTotal(_, _)
PairTotal(p, n) ==
    IF n = 0 THEN 0
    ELSE PairTotal(p, n - 1)
         + (IF TrendPair(TrendKept[n]) = p THEN TrendKept[n][call.value_col].n ELSE 0)

\* C12: trends, asked for a date column that is named neither "region"
\* nor "value", returns without error whatever dates and values fail to
\* parse; it has exactly one row for each (period end, region) pair of the
\* rows whose date and value both parse, the row's value being the
\* reduction over the pair's rows; the rows ascend by (date, region); and
\* A/Jan, A/Feb, B/Jan by month gives (Jan, A), (Jan, B), (Feb, A).
C12_TrendsBuckets ==
    ret.fn = "trends" /\ call.date_col \notin {"region", "value"} =>
        LET rows == ret.rows
            pairs == {TrendPair(TrendKept[i]) : i \in 1..Len(TrendKept)}
        IN  /\ ret.ok
            /\ Len(rows) = Cardinality(pairs)
            /\ {<<rows[i].date.s, rows[i].region>> : i \in 1..Len(rows)} = pairs
            /\ \A i \in 1..Len(rows) :
                  /\ rows[i].date.t = "str"
                  /\ rows[i].value =
                        IF call.agg = "sum"
                        THEN Num(PairTotal(<<rows[i].date.s, rows[i].region>>, Len(TrendKept)))
                        ELSE Num(Cardinality({j \in 1..Len(TrendKept) :
                                    TrendPair(TrendKept[j])
                                        = <<rows[i].date.s, rows[i].region>>}))
            /\ \A i \in 1..(Len(rows) - 1) :
                  \/ StrLess(rows[i].date.s, rows[i + 1].date.s)
                  \/ /\ rows[i].date = rows[i + 1].date
                     /\ StrLess(rows[i].region.s, rows[i + 1].region.s)
            /\ (/\ call.freq = "M"
                /\ Len(TrendKept) = 3
                /\ [i \in 1..3 |-> <<TrendKept[i][call.region_col].s,
                                     TrendKept[i][call.date_col].s>>]
                      = << <<"A", "2025-01-01">>, <<"A", "2025-02-01">>,
                           <<"B", "2025-01-01">> >>)
                  => [i \in 1..Len(rows) |-> <<rows[i].date.s, rows[i].region.s>>]
                        = << <<"2025-01-31", "A">>, <<"2025-01-31", "B">>,
                             <<"2025-02-28", "A">> >>

\* C12 witness: a call by month on three rows, one with a date that is no
\* date, one with a value that is no number, one that parses; the result
\* is the one row of the last.
C12_Witness ==
    /\ ret.fn = "trends"
    /\ ret.ok
    /\ call.freq = "M"
    /\ Len(call.df.rows) = 3
    /\ \E i \in 1..3 : call.df.rows[i][call.date_col] = Str("soon")
    /\ \E i \in 1..3 : /\ call.df.rows[i][call.date_col] # Str("soon")
                       /\ call.df.rows[i][call.value_col] = Str("n/a")
    /\ Len(ret.rows) = 1
    /\ ret.rows[1].date.s \in {"2025-01-31", "2025-02-28"}

\* n1/d1 + n2/d2 <= 100, for two numbers.
SumAtMost100(a, b) == (a.n * b.d + b.n * a.d) <= 100 * a.d * b.d

\* The sum of the numerators of the values of the first n aggregated rows
\* (the values of these calls are integers).
RECURSIVE GrandSum(_, _)
GrandSum(rows, n) == IF n = 0 THEN 0 ELSE GrandSum(rows, n - 1) + rows[n].value.n

\* A summary of a direct call that found data to analyze.
Summarized == ret.fn = "executive_summary" /\ ret.ok /\ ~ret.empty

\* C13 as stated: whenever the top and the bottom region differ, their two
\* percentages sum to at most 100, and the total is the sum of the values
\* of the aggregated rows.
C13_PercentagesAtMost100 ==
    Summarized =>
        /\ ret.key_findings[3].value
              = Num(GrandSum(CallAggregate.rows, Len(CallAggregate.rows)))
        /\ ret.key_findings[1].region # ret.key_findings[2].region =>
              SumAtMost100(ret.key_findings[1].pct, ret.key_findings[2].pct)

\* C13: the total is the sum of the values of the aggregated rows; and
\* when no aggregated value is negative, the percentages of the top and
\* the bottom region, before they are rounded to one decimal, lie between
\* 0 and 100 and, the two regions being different, sum to at most 100.
C13_NonNegativePercentages ==
    Summarized =>
        /\ ret.key_findings[3].value
              = Num(GrandSum(CallAggregate.rows, Len(CallAggregate.rows)))
        /\ (\A i \in 1..Len(CallAggregate.rows) : CallAggregate.rows[i].value.n >= 0) =>
              /\ \A f \in 1..2 :
                    /\ ret.key_findings[f].pct.n >= 0
                    /\ SumAtMost100(ret.key_findings[f].pct, Num(0))
              /\ ret.key_findings[1].region # ret.key_findings[2].region =>
                    SumAtMost100(ret.key_findings[1].pct, ret.key_findings[2].pct)

\* C13 witness: three regions of values 3, 1 and 0 under sum, the top
\* region at 75% and the bottom region at 0% of the total 4.
C13_Witness ==
    /\ Summarized
    /\ call.agg = "sum"
    /\ Len(CallAggregate.rows) = 3
    /\ ret.key_findings[3].value = Num(4)
    /\ ret.key_findings[1].pct = Num(75)
    /\ ret.key_findings[2].pct = Num(0)
    /\ ret.key_findings[1].region # ret.key_findings[2].region

\* C14: when region aggregation returns rows whose values sum to zero,
\* executive_summary returns normally, reports the total 0 and gives the
\* top and the bottom region the percentage 0.
C14_ZeroTotal ==
    (/\ ret.fn = "executive_summary"
     /\ CallAggregate.ok
     /\ CallAggregate.rows # <<>>
     /\ GrandSum(CallAggregate.rows, Len(CallAggregate.rows)) = 0) =>
        /\ ret.ok
        /\ ~ret.empty
        /\ ret.key_findings[3].value = Num(0)
        /\ ret.key_findings[1].pct = Num(0)
        /\ ret.key_findings[2].pct = Num(0)

\* C14 witness: two regions or more, every value zero, summarized with
\* both percentages 0.
C14_Witness ==
    /\ Summarized
    /\ Len(CallAggregate.rows) >= 2
    /\ \A i \in 1..Len(call.df.rows) : call.df.rows[i][call.value_col] = Num(0)
    /\ ret.key_findings[1].pct = Num(0)
    /\ ret.key_findings[2].pct = Num(0)
    /\ ret.key_findings[1].region # ret.key_findings[2].region

\* C15 as stated: region_aggregate never raises on a value that is no
\* number, and the value of each region it returns is the reduction over
\* the region's cells that read as numbers.
C15_CoercedBeforeGrouping ==
    ret.fn = "region_aggregate" /\ MissingColumns(call.df, <<call.region_col, call.value_col>>) = <<>> =>
        /\ ret.ok
        /\ \A i \in 1..Len(ret.rows) :
              ret.rows[i].value
                 = ReduceCoerced(call.agg,
                                 GroupCells(call.df.rows, call.region_col,
                                            ret.rows[i].region, call.value_col))

\* C16 as stated: under every choice of pairwise distinct column names for
\* the date, the region and the value, trends returns, and each row of its
\* result has exactly the fields date, region and value: the period end
\* of a date of the input, a region of the input and a number.
C16_ThreeOutputFields ==
    ret.fn = "trends" =>
        /\ ret.ok
        /\ \A i \in 1..Len(ret.rows) :
              /\ DOMAIN ret.rows[i] = {"date", "region", "value"}
              /\ ret.rows[i].date.s
                    \in {PeriodEnd(d, call.freq) : d \in {"2025-01-01", "2025-02-01"}}
              /\ ret.rows[i].region \in {call.df.rows[j][call.region_col] :
                                            j \in 1..Len(call.df.rows)}
              /\ ret.rows[i].value.t = "num"

\* The (top, bottom) that rankings returns for the summarized call.
CallRanked ==
    rankings(call.df, call.region_col, call.value_col, call.agg, ret.top_n)

\* C17 as stated: the worst region of the summary sentence and of the
\* "Bottom region" finding is the last entry of bottom, or the last entry
\* of top when bottom is empty; the best region is the first entry of top.
C17_WorstIsLastOfBottom ==
    Summarized =>
        LET top == CallRanked.top
            bottom == CallRanked.bottom
            worst == IF bottom # <<>> THEN bottom[Len(bottom)] ELSE top[Len(top)]
        IN  /\ ret.summary.best = top[1].region
            /\ ret.key_findings[1].region = top[1].region
            /\ ret.summary.worst = worst.region
            /\ ret.key_findings[2].region = worst.region

\* C17: for top_n >= 1 and one region or more, bottom is not empty and the
\* worst region of the summary sentence and of the "Bottom region" finding
\* is its first entry, the region of the last aggregated row, which no
\* region undercuts; the best region is the first entry of top.
C17_WorstIsFirstOfBottom ==
    Summarized =>
        LET top == CallRanked.top
            bottom == CallRanked.bottom
            rows == CallAggregate.rows
        IN  /\ bottom # <<>>
            /\ ret.summary.best = top[1].region
            /\ ret.key_findings[1].region = top[1].region
            /\ ret.key_findings[1].value = top[1].value
            /\ ret.summary.worst = bottom[1].region
            /\ ret.key_findings[2].region = bottom[1].region
            /\ ret.key_findings[2].value = bottom[1].value
            /\ bottom[1] = RegionValue(rows[Len(rows)])
            /\ \A i \in 1..Len(rows) : ~NumLess(rows[i].value, ret.key_findings[2].value)

\* C17 witness: three regions of three different values summarized with
\* top_n = 2; the worst region is the first of bottom and not the last.
C17_Witness ==
    /\ Summarized
    /\ ret.top_n = 2
    /\ Len(CallAggregate.rows) = 3
    /\ NumLess(CallAggregate.rows[3].value, CallAggregate.rows[2].value)
    /\ NumLess(CallAggregate.rows[2].value, CallAggregate.rows[1].value)
    /\ ret.summary.worst = CallRanked.bottom[1].region
    /\ ret.summary.worst # CallRanked.bottom[2].region

====
